---- MODULE Spec2Model ----
(***************************************************************************)
(* The Netflix case-study notebook (src/Netflix_Case_Study.ipynb) as a     *)
(* state machine: one action per code cell, run top to bottom ("Run All"). *)
(* A cell that raises stops the run.  The table read from the CSV file is  *)
(* drawn from a bounded set of rows; text is kept character by character   *)
(* so that strip/split/int/float/strptime are computed, not assumed.       *)
(* Chart rendering (matplotlib, seaborn, WordCloud.generate) assigns none  *)
(* of the notebook's names and is left out; what each cell computes and    *)
(* the exceptions of its own statements are kept.                          *)
(***************************************************************************)
EXTENDS Integers, Sequences, FiniteSets, TLC

\* ------------------------------------------------------------------ text
\* A Python str is a sequence of one-character strings; a missing cell
\* (NaN / NaT / None) is the marker NaN, which is no str.
NaN == <<"<NaN>">>

isna(v) == v = NaN

notna(v) == v # NaN

Min(S) == CHOOSE x \in S : \A y \in S : x <= y

IsSpace(c) == c = " "

Digits == <<"0","1","2","3","4","5","6","7","8","9">>

IsDigit(c) == \E i \in 1..10 : Digits[i] = c

DigitVal(c) == (CHOOSE i \in 1..10 : Digits[i] = c) - 1

AllDigits(s) == \A i \in 1..Len(s) : IsDigit(s[i])

RECURSIVE Num(_)
Num(s) == IF s = <<>> THEN 0 ELSE 10 * Num(SubSeq(s, 1, Len(s) - 1)) + DigitVal(s[Len(s)])

UpperAlpha == <<"A","B","C","D","E","F","G","H","I","J","K","L","M","N","O","P","Q","R","S","T","U","V","W","X","Y","Z">>

LowerAlpha == <<"a","b","c","d","e","f","g","h","i","j","k","l","m","n","o","p","q","r","s","t","u","v","w","x","y","z">>

lower(s) == [i \in 1..Len(s) |->
               IF \E k \in 1..26 : UpperAlpha[k] = s[i]
               THEN LowerAlpha[CHOOSE k \in 1..26 : UpperAlpha[k] = s[i]]
               ELSE s[i]]

RECURSIVE lstrip(_)
lstrip(s) == IF s # <<>> /\ IsSpace(Head(s)) THEN lstrip(Tail(s)) ELSE s

RECURSIVE rstrip(_)
rstrip(s) == IF s # <<>> /\ IsSpace(s[Len(s)]) THEN rstrip(SubSeq(s, 1, Len(s) - 1)) ELSE s

\* str.strip()
strip(s) == rstrip(lstrip(s))

\* str.find(sub), 1-based; 0 when sub does not occur
find(s, sub) ==
    LET hits == {i \in 1..(Len(s) - Len(sub) + 1) : SubSeq(s, i, i + Len(sub) - 1) = sub}
    IN  IF hits = {} THEN 0 ELSE Min(hits)

\* sub in s
contains(s, sub) == find(s, sub) # 0

\* str.endswith(suffix)
endswith(s, suffix) ==
    /\ Len(s) >= Len(suffix)
    /\ SubSeq(s, Len(s) - Len(suffix) + 1, Len(s)) = suffix

\* str.split(sep): left to right, non-overlapping, empty tokens kept
RECURSIVE split_sep(_, _)
split_sep(s, sep) ==
    LET i == find(s, sep)
    IN  IF i = 0 THEN <<s>>
        ELSE <<SubSeq(s, 1, i - 1)>> \o split_sep(SubSeq(s, i + Len(sep), Len(s)), sep)

\* str.split(): runs of whitespace separate, no empty tokens
RECURSIVE split(_)
split(s) ==
    LET t == lstrip(s)
        sp == {i \in 1..Len(t) : IsSpace(t[i])}
        n == IF sp = {} THEN Len(t) + 1 ELSE Min(sp)
    IN  IF t = <<>> THEN <<>>
        ELSE <<SubSeq(t, 1, n - 1)>> \o split(SubSeq(t, n, Len(t)))

\* ------------------------------------------------- Python's int() and float()
\* Results: <<"int", n>>, <<"float", m, s>> (the number m / 10^s, s minimal),
\* NaN, or ValueError when the conversion raises.  Exponents, underscores and
\* "inf" are not modelled: no sampled token holds them.
ValueError == <<"ValueError">>

Unsigned(t) == IF t # <<>> /\ (Head(t) = "-" \/ Head(t) = "+") THEN Tail(t) ELSE t

Sign(t) == IF t # <<>> /\ Head(t) = "-" THEN -1 ELSE 1

RECURSIVE Normal(_, _)
Normal(m, s) == IF s > 0 /\ m % 10 = 0 THEN Normal(m \div 10, s - 1) ELSE <<"float", m, s>>

float(x) ==
    LET t == strip(x)
        body == Unsigned(t)
        dot == find(body, <<".">>)
        ip == IF dot = 0 THEN body ELSE SubSeq(body, 1, dot - 1)
        fp == IF dot = 0 THEN <<>> ELSE SubSeq(body, dot + 1, Len(body))
    IN  IF lower(body) = <<"n","a","n">> THEN NaN
        ELSE IF AllDigits(ip) /\ AllDigits(fp) /\ Len(ip) + Len(fp) > 0
             THEN LET n == Normal(Num(ip \o fp), Len(fp))
                  IN  <<"float", Sign(t) * n[2], n[3]>>
             ELSE ValueError

int(x) ==
    LET t == strip(x)
        body == Unsigned(t)
    IN  IF body # <<>> /\ AllDigits(body) THEN <<"int", Sign(t) * Num(body)>>
        ELSE ValueError

\* ----------------------------- pd.to_datetime(format='%B %d, %Y', errors='coerce')
\* %B: a full month name, any case
MonthNames ==
    <<<<"j","a","n","u","a","r","y">>,
      <<"f","e","b","r","u","a","r","y">>,
      <<"m","a","r","c","h">>,
      <<"a","p","r","i","l">>,
      <<"m","a","y">>,
      <<"j","u","n","e">>,
      <<"j","u","l","y">>,
      <<"a","u","g","u","s","t">>,
      <<"s","e","p","t","e","m","b","e","r">>,
      <<"o","c","t","o","b","e","r">>,
      <<"n","o","v","e","m","b","e","r">>,
      <<"d","e","c","e","m","b","e","r">>>>

IsLeap(y) == (y % 4 = 0 /\ y % 100 # 0) \/ y % 400 = 0

DaysIn(y, m) ==
    IF m = 2 THEN (IF IsLeap(y) THEN 29 ELSE 28)
    ELSE IF m \in {4, 6, 9, 11} THEN 30 ELSE 31

\* The whole string must match  <month name>\s+<day>,\s+<4-digit year>  and
\* name a day of the calendar; the result is <<year, month, day>>, or NaN
\* (NaT) for everything else: errors='coerce' never raises.
strptime(s) ==
    LET sp == find(s, <<" ">>)
        name == lower(SubSeq(s, 1, sp - 1))
        rest == lstrip(SubSeq(s, sp, Len(s)))
        comma == find(rest, <<",">>)
        dd == SubSeq(rest, 1, comma - 1)
        after == SubSeq(rest, comma + 1, Len(rest))
        yy == lstrip(after)
    IN  IF sp = 0 \/ comma = 0 THEN NaN
        ELSE IF ~ \E m \in 1..12 : MonthNames[m] = name THEN NaN
        ELSE IF ~ (Len(dd) \in {1, 2} /\ AllDigits(dd) /\ Num(dd) \in 1..31) THEN NaN
        ELSE IF ~ (after # yy /\ Len(yy) = 4 /\ AllDigits(yy) /\ Num(yy) >= 1) THEN NaN
        ELSE LET m == CHOOSE m \in 1..12 : MonthNames[m] = name
             IN  IF Num(dd) <= DaysIn(Num(yy), m) THEN <<Num(yy), m, Num(dd)>> ELSE NaN

\* pd.to_datetime on one cell: a missing cell stays missing
to_datetime(v) == IF isna(v) THEN NaN ELSE strptime(v)

\* ------------------------------------------------------------- the input
\* Cell values of the sampled catalog rows, and the fill sentinel.
NoData == <<"N","o"," ","D","a","t","a">>   \* "No Data"

d90min == <<"9","0"," ","m","i","n">>   \* "90 min"

d15min == <<"1",".","5"," ","m","i","n">>   \* "1.5 min"

dAbcMin == <<"a","b","c"," ","m","i","n">>   \* "abc min"

d90minGlued == <<"9","0","m","i","n">>   \* "90min"

dMinOnly == <<"m","i","n">>   \* "min"

dNeg5min == <<"-","5"," ","m","i","n">>   \* "-5 min"

d3Seasons == <<"3"," ","S","e","a","s","o","n","s">>   \* "3 Seasons"

d1Season == <<"1"," ","S","e","a","s","o","n">>   \* "1 Season"

d0Seasons == <<"0"," ","S","e","a","s","o","n","s">>   \* "0 Seasons"

dXSeasons == <<"x"," ","S","e","a","s","o","n","s">>   \* "x Seasons"

dateJan1 == <<"J","a","n","u","a","r","y"," ","1",","," ","2","0","2","0">>   \* "January 1, 2020"

dateMay5 == <<"M","a","y"," ","5",","," ","1","9","9","9">>   \* "May 5, 1999"

dateNot == <<"n","o","t"," ","a"," ","d","a","t","e">>   \* "not a date"

dateFeb30 == <<"F","e","b","r","u","a","r","y"," ","3","0",","," ","2","0","2","0">>   \* "February 30, 2020"

cIndia == <<"I","n","d","i","a">>   \* "India"

cUSIndia == <<"U","S",","," ","I","n","d","i","a">>   \* "US, India"

castAB == <<"A",","," ","B">>   \* "A, B"

castBA == <<"B",","," ","A">>   \* "B, A"

castGlued == <<"A",",","B">>   \* "A,B"

castMany == <<"a",","," ","b",","," ","c",","," ","d",","," ","e",","," ","f",","," ","g",","," ","h",","," ","i",","," ","j",","," ","k">>   \* "a, b, c, d, e, f, g, h, i, j, k"

gDCD == <<"D","r","a","m","a",","," ","C","o","m","e","d","y",","," ","D","r","a","m","a">>   \* "Drama, Comedy, Drama"

gDrama == <<"D","r","a","m","a">>   \* "Drama"

gComedy == <<"C","o","m","e","d","y">>   \* "Comedy"

gMany == <<"a",",","b",",","c",",","d",",","e",",","f",",","g",",","h",",","i",",","j",",","k">>   \* "a,b,c,d,e,f,g,h,i,j,k"

tUp == <<"U","p">>   \* "Up"

tIt == <<"I","t">>   \* "It"

rPG == <<"P","G">>   \* "PG"

dirD == <<"D">>   \* "D"

BaseRow ==
    [type |-> "Movie", title |-> tUp, director |-> dirD, cast |-> castAB,
     country |-> cIndia, date_added |-> dateJan1, rating |-> rPG,
     duration |-> d90min, listed_in |-> gDrama]

TVRow == [BaseRow EXCEPT !.type = "TV Show", !.duration = d3Seasons]

\* The rows a CSV file may hold: every shape of cell the cells below branch on.
SampleRows ==
    { [BaseRow EXCEPT !.country = NaN, !.cast = NaN, !.listed_in = gDCD],
      [BaseRow EXCEPT !.duration = d15min, !.director = NaN],
      [BaseRow EXCEPT !.duration = dAbcMin, !.country = cUSIndia],
      [BaseRow EXCEPT !.duration = d90minGlued],
      [BaseRow EXCEPT !.duration = dMinOnly],
      [BaseRow EXCEPT !.duration = dNeg5min, !.cast = NoData],
      [BaseRow EXCEPT !.duration = d3Seasons, !.cast = castGlued],
      [BaseRow EXCEPT !.listed_in = gMany, !.cast = castMany],
      [BaseRow EXCEPT !.rating = NaN],
      [BaseRow EXCEPT !.duration = NaN],
      [BaseRow EXCEPT !.date_added = NaN],
      [BaseRow EXCEPT !.date_added = dateNot],
      [BaseRow EXCEPT !.date_added = dateFeb30],
      [TVRow EXCEPT !.cast = castBA, !.listed_in = gComedy, !.date_added = dateMay5, !.title = tIt],
      [TVRow EXCEPT !.duration = d1Season, !.title = NaN, !.listed_in = NaN],
      [TVRow EXCEPT !.duration = d0Seasons, !.country = cUSIndia],
      [TVRow EXCEPT !.duration = dXSeasons],
      [TVRow EXCEPT !.duration = d90min] }

\* Largest number of rows of the CSV file
MaxRows == 2

\* pd.read_csv: the rows in file order, labelled by a RangeIndex (here from 1)
read_csv(rows) == [i \in 1..Len(rows) |-> rows[i] @@ [idx |-> i]]

Tables == UNION {[1..n -> SampleRows] : n \in 0..MaxRows}

\* The rows that tell the aggregation cells apart: a movie, a movie whose
\* duration float() rejects, a TV show, a TV show whose season count is
\* not positive, and a row the date cell drops
OrderRows ==
    { [BaseRow EXCEPT !.duration = d15min, !.director = NaN],
      [BaseRow EXCEPT !.duration = dAbcMin, !.country = cUSIndia],
      [BaseRow EXCEPT !.date_added = dateNot],
      [TVRow EXCEPT !.cast = castBA, !.listed_in = gComedy, !.date_added = dateMay5, !.title = tIt],
      [TVRow EXCEPT !.duration = d0Seasons, !.country = cUSIndia] }

OrderTables == UNION {[1..n -> OrderRows] : n \in 0..MaxRows}

\* ------------------------------------------------------------- the state
VARIABLES
    file,             \* netflix_title.csv on disk: absent, empty, or a CSV table
    fetch,            \* what the load cell's wget fallback did
    read_attempted,   \* pd.read_csv (line 62) was called
    bound,            \* the names bound in the kernel's namespace (charts by what they count)
    csv,              \* the table as loaded (line 62), kept for reference
    df,               \* the main table
    pc,               \* the next cell to run
    err,              \* the exception that stopped the run, or "none"
    initial_count, missing_rating, missing_duration, missing_date, dropped,
    failed_dates,
    type_df,
    unique_countries, top_countries, all_genres, top10_genres,
    df_movies, bad_durations,
    df_shows, fail_count,
    year_counts, month_counts,
    flat_cast_list, top_actors,
    text

loadVars == <<file, fetch, read_attempted>>

cleanVars == <<initial_count, missing_rating, missing_duration, missing_date, dropped>>

countryVars == <<unique_countries, top_countries, all_genres, top10_genres>>

movieVars == <<df_movies, bad_durations>>

showVars == <<df_shows, fail_count>>

trendVars == <<year_counts, month_counts>>

actorVars == <<flat_cast_list, top_actors>>

vars == <<loadVars, bound, csv, df, pc, err, cleanVars, failed_dates, type_df, countryVars,
          movieVars, showVars, trendVars, actorVars, text>>

\* A name no cell has assigned yet
\* An assignment or import statement binds its names
Binds(names) == bound' = bound \cup names

Unset == <<"<unset>">>

\* The code cells in notebook order
Cells == <<"load", "clean", "dates", "types", "countries", "movies", "shows", "trends",
           "actors", "cloud", "done">>

CellNo(c) == CHOOSE i \in 1..Len(Cells) : Cells[i] = c

\* Cell c has run to its end
Ran(c) == CellNo(pc) > CellNo(c)

\* Cell c raised exception e
Raised(c, e) == pc = c /\ err = e

\* The file on disk
Absent == [kind |-> "absent", rows |-> <<>>]

EmptyFile == [kind |-> "empty", rows |-> <<>>]

CsvFile(t) == [kind |-> "csv", rows |-> t]

\* No cell has assigned any of the analysis names yet
NothingComputed ==
    /\ initial_count = Unset /\ missing_rating = Unset /\ missing_duration = Unset
    /\ missing_date = Unset /\ dropped = Unset
    /\ failed_dates = Unset
    /\ type_df = Unset
    /\ unique_countries = Unset /\ top_countries = Unset
    /\ all_genres = Unset /\ top10_genres = Unset
    /\ df_movies = Unset /\ bad_durations = Unset
    /\ df_shows = Unset /\ fail_count = Unset
    /\ year_counts = Unset /\ month_counts = Unset
    /\ flat_cast_list = Unset /\ top_actors = Unset
    /\ text = Unset

\* The state after the load cell found the file locally and read it
Init ==
    /\ \E t \in Tables : file = CsvFile(t) /\ csv = read_csv(t)
    /\ fetch = "skipped"
    /\ read_attempted = TRUE
    /\ bound = {"df"}
    /\ df = csv
    /\ pc = "clean"
    /\ err = "none"
    /\ NothingComputed

\* ------------------------------ cell 76c146d4: Dataset & Environment Setup
\* Before the notebook runs: the file may be absent, may be a CSV table, or
\* may be an empty file (what an earlier failed `wget -O` leaves behind).
InitLoad ==
    /\ file \in {Absent, EmptyFile} \cup {CsvFile(t) : t \in Tables}
    /\ fetch = "unset"
    /\ read_attempted = FALSE
    /\ bound = {}
    /\ csv = Unset
    /\ df = Unset
    /\ pc = "load"
    /\ err = "none"
    /\ NothingComputed

\* line 62: df = pd.read_csv(DATA_FILENAME) on the file f
ReadFile(f) ==
    /\ read_attempted' = TRUE
    /\ IF f.kind = "csv"
       THEN /\ csv' = read_csv(f.rows)
            /\ df' = read_csv(f.rows)
            /\ Binds({"df"})
            /\ err' = err
            /\ pc' = "clean"
       ELSE \* pandas raises: no such file, or no columns to parse
            /\ err' = (IF f.kind = "absent" THEN "FileNotFoundError" ELSE "EmptyDataError")
            /\ UNCHANGED <<bound, csv, df, pc>>

\* lines 50-62.  get_ipython().system(...) returns whatever wget does: only
\* a failing call itself (no IPython shell: NameError) reaches `except`.
LoadCell ==
    /\ pc = "load" /\ err = "none"
    /\ IF file.kind # "absent"
       THEN \* os.path.exists: lines 58-59, no fetch
            /\ fetch' = "skipped"
            /\ file' = file
            /\ ReadFile(file)
       ELSE \/ \* no IPython shell: line 53 raises, lines 55-57 re-raise
               /\ fetch' = "no shell"
               /\ err' = "FileNotFoundError"
               /\ UNCHANGED <<file, read_attempted, bound, csv, df, pc>>
            \/ \* wget stores the dataset
               \E t \in Tables :
                   /\ fetch' = "downloaded"
                   /\ file' = CsvFile(t)
                   /\ ReadFile(CsvFile(t))
            \/ \* wget fails (no network, HTTP error): -O has made an empty file
               /\ fetch' = "failed"
               /\ file' = EmptyFile
               /\ ReadFile(EmptyFile)
            \/ \* the shell finds no wget: nothing is written
               /\ fetch' = "no wget"
               /\ file' = file
               /\ ReadFile(file)
    /\ UNCHANGED <<cleanVars, failed_dates, type_df, countryVars, movieVars, showVars,
                   trendVars, actorVars, text>>

NextLoad == LoadCell

\* The load cell alone, from every state of the file
SpecLoad == InitLoad /\ [][NextLoad]_vars

\* ------------------------------------------------------ pandas on a table
\* DataFrame.dropna(subset=cols): the rows with no missing cell in cols, in order
dropna(t, cols) == SelectSeq(t, LAMBDA r : \A c \in cols : notna(r[c]))

\* Series.isna().sum()
isna_sum(t, col) == Cardinality({i \in 1..Len(t) : isna(t[i][col])})

\* Series.fillna(value) on one cell
fillna(v, value) == IF isna(v) THEN value ELSE v

\* ----------------------------- cell 20a234b8: Handling Missing Values
Required == {"rating", "duration", "date_added"}

FillRowButDirector(r) ==
    [r EXCEPT !.country = fillna(@, NoData), !.cast = fillna(@, NoData)]

\* lines 151-153, one row
FillRow(r) ==
    [r EXCEPT !.country = fillna(@, NoData), !.cast = fillna(@, NoData),
              !.director = fillna(@, NoData)]

\* lines 146-147
Dropped(t) == Len(t) - Len(dropna(t, Required))

FillTable(t) == [i \in 1..Len(t) |-> FillRow(t[i])]

CleanCell ==
    /\ pc = "clean" /\ err = "none"
    /\ initial_count' = Len(df)
    /\ missing_rating' = isna_sum(df, "rating")
    /\ missing_duration' = isna_sum(df, "duration")
    /\ missing_date' = isna_sum(df, "date_added")
    /\ dropped' = Dropped(df)
    /\ Binds({"initial_count", "missing_rating", "missing_duration", "missing_date", "dropped"})
    /\ IF Len(df) = 0
       THEN \* line 148: dropped/initial_count divides by zero
            /\ df' = dropna(df, Required)
            /\ err' = "ZeroDivisionError"
            /\ pc' = pc
       ELSE /\ df' = FillTable(dropna(df, Required))
            /\ err' = err
            /\ pc' = "dates"
    /\ UNCHANGED <<loadVars, csv, failed_dates, type_df, countryVars, movieVars, showVars,
                   trendVars, actorVars, text>>

\* ------------------- cell e2cfba08: Parsing Dates and Extracting Time Features
\* line 180
ParseTable(t) == [i \in 1..Len(t) |-> [t[i] EXCEPT !.date_added = to_datetime(@)]]

\* line 181
FailedDatesAfterDrop(t) == isna_sum(dropna(ParseTable(t), {"date_added"}), "date_added")

FailedDates(t) == isna_sum(ParseTable(t), "date_added")

\* line 188
KeepFailedDates(t) == t

DropFailedDates(t) == dropna(t, {"date_added"})

\* lines 191-193: .dt.year/.dt.month/.dt.day (NaN for a NaT)
DatePart(d, k) == IF isna(d) THEN NaN ELSE d[k]

AddDateParts(r) ==
    r @@ [added_year |-> DatePart(r.date_added, 1),
          added_month |-> DatePart(r.date_added, 2),
          added_day |-> DatePart(r.date_added, 3)]

DatesCell ==
    /\ pc = "dates" /\ err = "none"
    /\ failed_dates' = FailedDates(df)
    /\ Binds({"failed_dates"})
    /\ df' = LET kept == DropFailedDates(ParseTable(df))
             IN  [i \in 1..Len(kept) |-> AddDateParts(kept[i])]
    /\ pc' = "types"
    /\ UNCHANGED <<loadVars, csv, err, cleanVars, type_df, countryVars, movieVars, showVars,
                   trendVars, actorVars, text>>

\* ------------------------------------------------- counting and ranking
Column(t, col) == [i \in 1..Len(t) |-> t[i][col]]

Range(s) == {s[i] : i \in 1..Len(s)}

Count(list, k) == Cardinality({i \in 1..Len(list) : list[i] = k})

\* The distinct elements of a list in the order they are first met
RECURSIVE Keys(_)
Keys(list) ==
    IF list = <<>> THEN <<>>
    ELSE LET front == Keys(SubSeq(list, 1, Len(list) - 1))
             last == list[Len(list)]
         IN  IF last \in Range(front) THEN front ELSE Append(front, last)

\* collections.Counter(list).items(): <<key, count>> in insertion order
Counter(list) ==
    LET keys == Keys(list)
    IN  [i \in 1..Len(keys) |-> <<keys[i], Count(list, keys[i])>>]

\* Series.head(n) / the [:n] of most_common(n)
head(s, n) == SubSeq(s, 1, IF Len(s) < n THEN Len(s) ELSE n)

\* Entries kept by every ranking (lines 260, 276, 425)
TopN == 10

most_common_ties_reversed(items, n) ==
    LET N == Len(items)
        Rank(i) == 1 + Cardinality({j \in 1..N : \/ items[j][2] > items[i][2]
                                                 \/ items[j][2] = items[i][2] /\ j > i})
    IN  head([p \in 1..N |-> items[CHOOSE i \in 1..N : Rank(i) = p]], n)

\* Counter.most_common(n): sorted(items, key=count, reverse=True)[:n]; the sort
\* is stable, so equal counts stay in insertion order
most_common(items, n) ==
    LET N == Len(items)
        Rank(i) == 1 + Cardinality({j \in 1..N : \/ items[j][2] > items[i][2]
                                                 \/ items[j][2] = items[i][2] /\ j < i})
    IN  head([p \in 1..N |-> items[CHOOSE i \in 1..N : Rank(i) = p]], n)

\* Series.value_counts(): the <<value, count>> pairs by descending count.  Its
\* sort_values(ascending=False) uses the default, unstable quicksort, so the
\* order among equal counts is whatever the build yields: every order.
value_counts(list) ==
    LET items == Counter(list)
        N == Len(items)
        Orders == {f \in [1..N -> 1..N] :
                     /\ \A p, q \in 1..N : p # q => f[p] # f[q]
                     /\ \A p, q \in 1..N : p < q => items[f[p]][2] >= items[f[q]][2]}
    IN  {[p \in 1..N |-> items[f[p]]] : f \in Orders}

\* ------------------------------------------------------------- charts
\* plt and sns are bound by the type cell alone (lines 219-220)
PlotsImported == "plt" \in bound

\* The chart calls that end a cell (plt.figure ... plt.show), then the cell
\* below; NameError at the first of them while plt is unbound
Plot(below) ==
    IF PlotsImported
    THEN pc' = below /\ err' = err
    ELSE pc' = pc /\ err' = "NameError"

\* ------------------------------ cell 499e1f66: Content Type Distribution
\* df['type'].value_counts() as type -> count (the bar order is not kept)
TypeCounts(t) == [k \in Range(Column(t, "type")) |-> Count(Column(t, "type"), k)]

TypesCell ==
    /\ pc = "types" /\ err = "none"
    /\ type_df' = TypeCounts(df)
    /\ Binds({"type_df", "plt", "sns"})
    /\ pc' = "countries"
    /\ UNCHANGED <<loadVars, csv, df, err, cleanVars, failed_dates, countryVars, movieVars,
                   showVars, trendVars, actorVars, text>>

\* ------------------------------ cell 00b26509: Country and Genre Analysis
\* df[df['country'] != 'No Data']['country']
KnownCountries(t) == Column(SelectSeq(t, LAMBDA r : r.country # NoData), "country")

RECURSIVE Flatten(_)
Flatten(ss) == IF ss = <<>> THEN <<>> ELSE Head(ss) \o Flatten(Tail(ss))

GenresOfDeduplicated(cell) ==
    LET parts == split_sep(cell, <<",">>)
    IN  Keys([i \in 1..Len(parts) |-> strip(parts[i])])

\* lines 274-275: one cell's genres
GenresOf(cell) ==
    LET parts == split_sep(cell, <<",">>)
    IN  [i \in 1..Len(parts) |-> strip(parts[i])]

\* lines 272-275
AllGenres(t) ==
    LET cells == Column(dropna(t, {"listed_in"}), "listed_in")
    IN  Flatten([i \in 1..Len(cells) |-> GenresOf(cells[i])])

CountriesCell ==
    /\ pc = "countries" /\ err = "none"
    /\ unique_countries' = Cardinality(Range(KnownCountries(df)))
    /\ \E ranked \in value_counts(KnownCountries(df)) :
           top_countries' = head(ranked, TopN)
    /\ IF PlotsImported
       THEN /\ all_genres' = AllGenres(df)
            /\ top10_genres' = most_common(Counter(AllGenres(df)), TopN)
            /\ Binds({"unique_countries", "top_countries", "all_genres", "top10_genres"})
            /\ Plot("movies")
       ELSE \* line 261 raises: lines 271-277 are not reached
            /\ UNCHANGED <<all_genres, top10_genres>>
            /\ Binds({"unique_countries", "top_countries"})
            /\ Plot("movies")
    /\ UNCHANGED <<loadVars, csv, df, cleanVars, failed_dates, type_df, movieVars,
                   showVars, trendVars, actorVars, text>>

\* ------------------------------ cell 32604916: Duration Analysis for Movies
\* lines 309-313
parse_movie_duration(x) ==
    IF notna(x) /\ endswith(strip(x), <<"m","i","n">>)
    THEN float(split(strip(x))[1])
    ELSE NaN

\* line 308
MoviesOf(t) == SelectSeq(t, LAMBDA r : r.type = "Movie")

\* line 314
WithDurationInt(t) ==
    [i \in 1..Len(t) |-> t[i] @@ [duration_int |-> parse_movie_duration(t[i].duration)]]

MoviesCell ==
    /\ pc = "movies" /\ err = "none"
    /\ LET parsed == WithDurationInt(MoviesOf(df))
       IN  IF \E i \in 1..Len(parsed) : parsed[i].duration_int = ValueError
           THEN \* float() raises inside apply: line 314 assigns nothing
                /\ df_movies' = MoviesOf(df)
                /\ bad_durations' = bad_durations
                /\ Binds({"df_movies"})
                /\ err' = "ValueError"
                /\ pc' = pc
           ELSE /\ df_movies' = dropna(parsed, {"duration_int"})
                /\ bad_durations' = isna_sum(parsed, "duration_int")
                /\ Binds({"df_movies", "bad_durations"})
                /\ Plot("shows")
    /\ UNCHANGED <<loadVars, csv, df, cleanVars, failed_dates, type_df, countryVars, showVars,
                   trendVars, actorVars, text>>

\* ------------------------------ cell f47c6c5f: Season Analysis for TV Shows
parse_seasons_any_text(x) ==
    IF notna(x) /\ split(x) # <<>>
    THEN LET num == split(x)[1]
         IN  IF int(num) = ValueError THEN NaN ELSE int(num)
    ELSE NaN

\* lines 346-354
parse_seasons(x) ==
    IF notna(x) /\ contains(x, <<"S","e","a","s","o","n">>)
    THEN LET num == split(x)[1]
         IN  IF int(num) = ValueError THEN NaN ELSE int(num)
    ELSE NaN

\* line 345
ShowsOf(t) == SelectSeq(t, LAMBDA r : r.type = "TV Show")

\* line 355
WithSeasons(t) ==
    [i \in 1..Len(t) |-> t[i] @@ [seasons |-> parse_seasons(t[i].duration)]]

ShowsCellWithoutCopy ==
    /\ pc = "shows" /\ err = "none"
    /\ df' = WithSeasons(df)
    /\ df_shows' = dropna(WithSeasons(ShowsOf(df)), {"seasons"})
    /\ fail_count' = isna_sum(WithSeasons(ShowsOf(df)), "seasons")
    /\ Binds({"df_shows", "fail_count"})
    /\ Plot("trends")
    /\ UNCHANGED <<loadVars, csv, cleanVars, failed_dates, type_df, countryVars,
                   movieVars, trendVars, actorVars, text>>

ShowsCell ==
    /\ pc = "shows" /\ err = "none"
    /\ df_shows' = dropna(WithSeasons(ShowsOf(df)), {"seasons"})
    /\ fail_count' = isna_sum(WithSeasons(ShowsOf(df)), "seasons")
    /\ Binds({"df_shows", "fail_count"})
    /\ Plot("trends")
    /\ UNCHANGED <<loadVars, csv, df, cleanVars, failed_dates, type_df, countryVars,
                   movieVars, trendVars, actorVars, text>>

\* ------------------------------ cell 5394034d: Trends Over Time
\* sns.countplot(x=col, data=t): value -> number of rows
CountPlot(t, col) == [k \in Range(Column(t, col)) |-> Count(Column(t, col), k)]

TrendsCell ==
    /\ pc = "trends" /\ err = "none"
    /\ IF PlotsImported
       THEN /\ year_counts' = CountPlot(df, "added_year")
            /\ month_counts' = CountPlot(df, "added_month")
            /\ Binds({"year_counts", "month_counts"})
       ELSE \* line 386 raises before anything is counted
            UNCHANGED <<bound, year_counts, month_counts>>
    /\ Plot("actors")
    /\ UNCHANGED <<loadVars, csv, df, cleanVars, failed_dates, type_df, countryVars,
                   movieVars, showVars, actorVars, text>>

\* ------------------------------ cell 2cd0d2ef: Top Actors/Actresses
CastSeriesWithSentinel(t) ==
    LET cells == Column(t, "cast")
    IN  [i \in 1..Len(cells) |-> split_sep(cells[i], <<",", " ">>)]

\* line 423
CastSeries(t) ==
    LET cells == Column(SelectSeq(t, LAMBDA r : r.cast # NoData), "cast")
    IN  [i \in 1..Len(cells) |-> split_sep(cells[i], <<",", " ">>)]

\* line 424
FlatCastList(t) ==
    LET flat == Flatten(CastSeries(t))
    IN  [i \in 1..Len(flat) |-> strip(flat[i])]

ActorsCell ==
    /\ pc = "actors" /\ err = "none"
    /\ flat_cast_list' = FlatCastList(df)
    /\ top_actors' = most_common(Counter(FlatCastList(df)), TopN)
    /\ Binds({"flat_cast_list", "top_actors"})
    /\ Plot("cloud")
    /\ UNCHANGED <<loadVars, csv, df, cleanVars, failed_dates, type_df, countryVars,
                   movieVars, showVars, trendVars, text>>

\* ------------------------------ cell 41cb8384: Word Cloud of Titles
\* ' '.join(list)
RECURSIVE join(_)
join(list) ==
    IF list = <<>> THEN <<>>
    ELSE IF Len(list) = 1 THEN list[1]
    ELSE list[1] \o <<" ">> \o join(Tail(list))

\* line 459
TitleText(t) == join(Column(dropna(t, {"title"}), "title"))

CloudCell ==
    /\ pc = "cloud" /\ err = "none"
    /\ \E installed \in BOOLEAN :
           IF installed
           THEN text' = TitleText(df) /\ Binds({"text"}) /\ Plot("done")
           ELSE \* the wordcloud package is absent: lines 456-457
                text' = text /\ bound' = bound /\ err' = "ImportError" /\ pc' = pc
    /\ UNCHANGED <<loadVars, csv, df, cleanVars, failed_dates, type_df, countryVars, movieVars,
                   showVars, trendVars, actorVars>>

Next ==
    \/ CleanCell
    \/ DatesCell
    \/ TypesCell
    \/ CountriesCell
    \/ MoviesCell
    \/ ShowsCell
    \/ TrendsCell
    \/ ActorsCell
    \/ CloudCell

Spec == Init /\ [][Next]_vars

\* ------------------------------------------- cells run by hand, any order
\* The cells below the date cell: lines 214-467
AggregationCells == {"types", "countries", "movies", "shows", "trends", "actors", "cloud"}

\* The date cell has derived added_year / added_month / added_day
AggregationBegun == "failed_dates" \in bound

\* The user puts the cursor on any aggregation cell (an error shown by the
\* cell run before stops nothing when cells are run one by one)
SelectCell ==
    /\ AggregationBegun
    /\ \E c \in AggregationCells :
           /\ c # pc \/ err # "none"
           /\ pc' = c
    /\ err' = "none"
    /\ UNCHANGED <<loadVars, bound, csv, df, cleanVars, failed_dates, type_df, countryVars,
                   movieVars, showVars, trendVars, actorVars, text>>

NextAnyOrder ==
    \/ Next
    \/ SelectCell

InitAnyOrder ==
    /\ Init
    /\ file.rows \in OrderTables

\* Run All up to the date cell, then the aggregation cells in any order,
\* any number of times
SpecAnyOrder == InitAnyOrder /\ [][NextAnyOrder]_vars

\* ======================================================================
\* Properties of the notebook
\* ======================================================================
Idx(t) == {t[i].idx : i \in 1..Len(t)}

\* A row of the CSV file with all three required cells present
Complete(r) == notna(r.rating) /\ notna(r.duration) /\ notna(r.date_added)

\* The cleaner has done its drop and fill
Cleaned == Ran("clean")

\* C1: after the cleaning step every surviving row has non-null rating,
\* duration and date_added, and its country, cast and director are never
\* null: "No Data" where the CSV cell was missing, the CSV cell's own value
\* where it was present.  The survivors are the complete rows of the file.
FilledOrKept(v, orig) == v = (IF isna(orig) THEN NoData ELSE orig)

C1_CleanedRowsComplete ==
    Cleaned =>
        /\ \A i \in 1..Len(df) :
             LET r == df[i]
                 o == csv[r.idx]
             IN  /\ notna(r.rating) /\ notna(r.duration) /\ notna(r.date_added)
                 /\ notna(r.country) /\ notna(r.cast) /\ notna(r.director)
                 /\ FilledOrKept(r.country, o.country)
                 /\ FilledOrKept(r.cast, o.cast)
                 /\ FilledOrKept(r.director, o.director)
        /\ Idx(df) \subseteq {i \in 1..Len(csv) : Complete(csv[i])}

\* C1 witness: the cleaner has just run on a file with an incomplete row, and
\* a survivor had a missing director and a present country.
C1_Witness ==
    /\ pc = "dates"
    /\ Len(df) < Len(csv)
    /\ \E i \in 1..Len(df) :
         /\ isna(csv[df[i].idx].director) /\ df[i].director = NoData
         /\ notna(csv[df[i].idx].country) /\ df[i].country = csv[df[i].idx].country

\* C2 as stated: the reported dropped-count is the original row count minus
\* the row count after cleaning and the date-parse drop.
C2_DroppedIsTotalLoss ==
    Ran("dates") => Len(df) <= initial_count /\ dropped = initial_count - Len(df)

\* C2 amended: the final row count is at most the original one; `dropped` is
\* the original row count minus the row count after the cleaner's own drop,
\* so the total loss after the date step is dropped + failed_dates.
C2_DroppedIsCleanerLoss ==
    /\ (pc = "dates" \/ Raised("clean", "ZeroDivisionError")) =>
           /\ initial_count = Len(csv)
           /\ Len(df) <= initial_count
           /\ dropped = initial_count - Len(df)
    /\ Ran("dates") =>
           /\ initial_count = Len(csv)
           /\ Len(df) <= initial_count
           /\ dropped = Cardinality({i \in 1..Len(csv) : ~ Complete(csv[i])})
           /\ initial_count - Len(df) = dropped + failed_dates

\* C2 witness: both drops removed a row
C2_Witness == Ran("dates") /\ dropped > 0 /\ failed_dates > 0

\* The complete rows of the file whose date_added parses, as they must stand
\* in the main table once the date cell has run
DateParses(r) == strptime(r.date_added) # NaN

Survivors ==
    LET good == SelectSeq(csv, LAMBDA r : Complete(r) /\ DateParses(r))
    IN  [i \in 1..Len(good) |->
           LET d == strptime(good[i].date_added)
           IN  [good[i] EXCEPT !.date_added = d,
                               !.country = IF isna(@) THEN NoData ELSE @,
                               !.cast = IF isna(@) THEN NoData ELSE @,
                               !.director = IF isna(@) THEN NoData ELSE @]
               @@ [added_year |-> d[1], added_month |-> d[2], added_day |-> d[3]]]

BadDates == {i \in 1..Len(csv) : Complete(csv[i]) /\ ~ DateParses(csv[i])}

\* C3: a row whose date_added is present but does not parse raises nothing,
\* is counted once in failed_dates, is gone from the table before the date
\* parts are derived and feeds no later aggregation; a row whose date parses
\* is not dropped by the date cell.  (Every aggregation is the one over the
\* surviving rows alone.)
C3_BadDateRowsDropped ==
    LET S == Survivors
    IN  /\ pc = "dates" => err = "none"
        /\ Ran("dates") =>
               /\ failed_dates = Cardinality(BadDates)
               /\ df = S
               /\ Idx(df) \cap BadDates = {}
        /\ Ran("types") => type_df = TypeCounts(S)
        /\ Ran("countries") =>
               /\ unique_countries = Cardinality(Range(KnownCountries(S)))
               /\ \E ranked \in value_counts(KnownCountries(S)) :
                      top_countries = head(ranked, TopN)
               /\ all_genres = AllGenres(S)
               /\ top10_genres = most_common(Counter(AllGenres(S)), TopN)
        /\ (Ran("movies") \/ Raised("movies", "ValueError")) =>
               Idx(df_movies) \subseteq Idx(MoviesOf(S))
        /\ Ran("shows") => Idx(df_shows) \subseteq Idx(ShowsOf(S))
        /\ Ran("trends") =>
               /\ year_counts = CountPlot(S, "added_year")
               /\ month_counts = CountPlot(S, "added_month")
        /\ Ran("actors") => flat_cast_list = FlatCastList(S)
        /\ Ran("cloud") => text = TitleText(S)

\* C3 witness: the whole notebook ran on a file holding a row with an
\* unparsable date and a row with a good one.
C3_Witness ==
    /\ pc = "done"
    /\ failed_dates = 1
    /\ Len(df) = 1
    /\ \E i \in 1..Len(csv) : csv[i].date_added = dateNot

RECURSIVE SumSeq(_)
SumSeq(s) == IF s = <<>> THEN 0 ELSE Head(s) + SumSeq(Tail(s))

RECURSIVE Total(_)
Total(f) ==
    IF DOMAIN f = {} THEN 0
    ELSE LET k == CHOOSE k \in DOMAIN f : TRUE
         IN  f[k] + Total([j \in DOMAIN f \ {k} |-> f[j]])

\* An integer literal: an optional sign and digits
IsIntLiteral(tok) == Unsigned(tok) # <<>> /\ AllDigits(Unsigned(tok))

IntOf(tok) == Sign(tok) * Num(Unsigned(tok))

\* The literal shape "<integer> min": an integer, one space, "min"
IntegerMinShape(x) ==
    /\ Len(x) > 4
    /\ SubSeq(x, Len(x) - 3, Len(x)) = <<" ", "m", "i", "n">>
    /\ IsIntLiteral(SubSeq(x, 1, Len(x) - 4))

\* C4: a Movie duration that is not of the shape "<integer> min" makes
\* parse_movie_duration yield "no value" and raise nothing; the row is left
\* out of the duration aggregation only.
C4_MalformedDurationDegrades ==
    /\ ~ Raised("movies", "ValueError")
    /\ Ran("movies") =>
           \A i \in 1..Len(df) :
               (df[i].type = "Movie" /\ ~ IntegerMinShape(df[i].duration))
                   => df[i].idx \notin Idx(df_movies)

\* The digits a string starts with
RECURSIVE LeadingDigits(_)
LeadingDigits(x) ==
    IF x # <<>> /\ IsDigit(Head(x)) THEN <<Head(x)>> \o LeadingDigits(Tail(x)) ELSE <<>>

\* C5: every Movie row kept for the duration aggregation has a non-negative
\* duration_int equal to the leading integer of its original duration string.
C5_DurationIntIsLeadingInteger ==
    Ran("movies") =>
        \A i \in 1..Len(df_movies) :
            LET lead == LeadingDigits(csv[df_movies[i].idx].duration)
            IN  lead # <<>> /\ df_movies[i].duration_int = <<"float", Num(lead), 0>>

\* The first whitespace-delimited token of a string, <<>> when there is none
LeadingToken(x) ==
    LET t == lstrip(x)
        sp == {i \in 1..Len(t) : t[i] = " "}
    IN  IF sp = {} THEN t ELSE SubSeq(t, 1, Min(sp) - 1)

HasSeasonCount(x) ==
    /\ \E i \in 1..(Len(x) - 5) : SubSeq(x, i, i + 5) = <<"S", "e", "a", "s", "o", "n">>
    /\ IsIntLiteral(LeadingToken(x))

\* C6 as stated: every TV-show row kept for the season aggregation has a
\* positive integer seasons equal to the leading token of its duration; a
\* duration without "Season", or whose leading token is no integer, raises
\* nothing and leaves the row out of the season aggregation only.
C6_SeasonsPositive ==
    /\ pc = "shows" => err = "none"
    /\ Ran("shows") =>
           /\ \A i \in 1..Len(df_shows) :
                LET x == csv[df_shows[i].idx].duration
                IN  /\ HasSeasonCount(x)
                    /\ df_shows[i].seasons = <<"int", IntOf(LeadingToken(x))>>
                    /\ df_shows[i].seasons[2] > 0
           /\ \A i \in 1..Len(df) :
                (df[i].type = "TV Show" /\ ~ HasSeasonCount(df[i].duration))
                    => df[i].idx \notin Idx(df_shows)

\* C6 amended: seasons is an integer, positive or not ("0 Seasons" gives 0),
\* equal to the leading token; the rest as stated.  The rows kept are exactly
\* the TV-show rows with a season count, fail_count counts the others, and
\* they stay in the main table and in the per-year counts.
C6_SeasonsIsLeadingToken ==
    /\ pc = "shows" => err = "none"
    /\ Ran("shows") =>
           /\ \A i \in 1..Len(df_shows) :
                LET x == csv[df_shows[i].idx].duration
                IN  /\ HasSeasonCount(x)
                    /\ df_shows[i].seasons = <<"int", IntOf(LeadingToken(x))>>
           /\ Idx(df_shows) = {df[i].idx : i \in {j \in 1..Len(df) :
                                    /\ df[j].type = "TV Show"
                                    /\ HasSeasonCount(df[j].duration)}}
           /\ fail_count = Cardinality({j \in 1..Len(df) :
                                    /\ df[j].type = "TV Show"
                                    /\ ~ HasSeasonCount(df[j].duration)})
           /\ df = Survivors
    /\ Ran("trends") => Total(year_counts) = Len(df)

\* C6 witness: one show kept with 3 seasons, one left out for "x Seasons"
C6_Witness ==
    /\ Ran("trends")
    /\ fail_count = 1
    /\ \E i \in 1..Len(df_shows) : df_shows[i].seasons = <<"int", 3>>
    /\ \E i \in 1..Len(df) : df[i].duration = dXSeasons

\* The number of commas in a cell (a missing cell holds none)
CommaCount(v) == Cardinality({i \in 1..Len(v) : v[i] = ","})

RowsWith(t, col, v) == Cardinality({i \in 1..Len(t) : t[i][col] = v})

\* C7 as stated: every retained row's listed_in is split on commas, so the
\* number of genre tokens is the sum over the retained rows of commas + 1.
C7_GenreTokensAllRows ==
    Ran("countries") =>
        Len(all_genres) = SumSeq([i \in 1..Len(df) |-> CommaCount(df[i].listed_in) + 1])

\* C7 amended: the sum runs over the retained rows whose listed_in is present
\* (a row without listed_in adds no token); no deduplication within a row:
\* "Drama, Comedy, Drama" adds two "Drama" and one "Comedy"; every ranked
\* genre carries its number of occurrences.
C7_GenreTokensPresentRows ==
    Ran("countries") =>
        LET present == SelectSeq(df, LAMBDA r : notna(r.listed_in))
        IN  /\ Len(all_genres) =
                   SumSeq([i \in 1..Len(present) |-> CommaCount(present[i].listed_in) + 1])
            /\ Count(all_genres, gDrama) =
                   2 * RowsWith(df, "listed_in", gDCD) + RowsWith(df, "listed_in", gDrama)
            /\ Count(all_genres, gComedy) =
                   RowsWith(df, "listed_in", gDCD) + RowsWith(df, "listed_in", gComedy)
            /\ \A p \in 1..Len(top10_genres) :
                   top10_genres[p][2] = Count(all_genres, top10_genres[p][1])

\* C7 witness: a "Drama, Comedy, Drama" row and a row without listed_in
C7_Witness ==
    /\ Ran("countries")
    /\ \E i \in 1..Len(df) : df[i].listed_in = gDCD
    /\ \E i \in 1..Len(df) : isna(df[i].listed_in)
    /\ top10_genres[1] = <<gDrama, 2>>

\* C8 as stated: the number of cast tokens is the sum, over the retained rows
\* whose cast is not "No Data", of commas + 1, whatever follows a comma.
C8_CastTokensPerComma ==
    Ran("actors") =>
        LET known == SelectSeq(df, LAMBDA r : r.cast # NoData)
        IN  Len(flat_cast_list) =
                SumSeq([i \in 1..Len(known) |-> CommaCount(known[i].cast) + 1])

\* The number of commas followed by a space
CommaSpaceCount(v) == Cardinality({i \in 1..(Len(v) - 1) : v[i] = "," /\ v[i + 1] = " "})

\* C8 amended: the sum is of (commas followed by a space) + 1: a comma with
\* no space after it does not split.  Rows whose cast is "No Data" add none.
C8_CastTokensPerCommaSpace ==
    Ran("actors") =>
        LET known == SelectSeq(df, LAMBDA r : r.cast # NoData)
        IN  Len(flat_cast_list) =
                SumSeq([i \in 1..Len(known) |-> CommaSpaceCount(known[i].cast) + 1])

\* C8 witness: a row with cast "A,B", a row whose missing cast was filled
C8_Witness ==
    /\ Ran("actors")
    /\ \E i \in 1..Len(df) : df[i].cast = castGlued
    /\ \E i \in 1..Len(df) : df[i].cast = NoData /\ isna(csv[df[i].idx].cast)

\* The country tokens of the rows whose country is not "No Data"
CountryTokens(t) ==
    LET cells == Column(SelectSeq(t, LAMBDA r : r.country # NoData), "country")
    IN  Flatten([i \in 1..Len(cells) |->
                   LET parts == split_sep(cells[i], <<",">>)
                   IN  [k \in 1..Len(parts) |-> strip(parts[k])]])

\* C9: the country ranking is the descending top ten of the frequencies of
\* the individual country tokens, rows with "No Data" left out.
C9_CountryRankingCountsTokens ==
    Ran("countries") =>
        \E ranked \in value_counts(CountryTokens(df)) : top_countries = head(ranked, TopN)

\* Where a key is first met in a list
FirstAt(list, k) == Min({i \in 1..Len(list) : list[i] = k})

\* A ranking of the keys of `list`: at most TopN entries, each key once with
\* its count, counts never rising, nothing left out that outranks an entry
Ranked(R, list) ==
    /\ Len(R) = (IF Cardinality(Range(list)) < TopN THEN Cardinality(Range(list)) ELSE TopN)
    /\ \A p \in 1..Len(R) : R[p][1] \in Range(list) /\ R[p][2] = Count(list, R[p][1])
    /\ \A p, q \in 1..Len(R) : p < q => R[p][1] # R[q][1] /\ R[p][2] >= R[q][2]
    /\ \A k \in Range(list) :
           (\A p \in 1..Len(R) : R[p][1] # k) =>
               \A p \in 1..Len(R) : R[p][2] >= Count(list, k)

\* Equal counts stand in the order the keys are first met, also against the
\* keys left out
TiesByFirstMet(R, list) ==
    /\ \A p, q \in 1..Len(R) :
           (p < q /\ R[p][2] = R[q][2]) => FirstAt(list, R[p][1]) < FirstAt(list, R[q][1])
    /\ \A k \in Range(list) :
           (\A p \in 1..Len(R) : R[p][1] # k) =>
               \A p \in 1..Len(R) :
                   R[p][2] = Count(list, k) => FirstAt(list, R[p][1]) < FirstAt(list, k)

\* C10 as stated: each of the three rankings holds at most ten entries by
\* descending count, equal counts in the order first met in the input.
C10_AllRankingsStable ==
    /\ Ran("countries") =>
           /\ Ranked(top_countries, KnownCountries(df))
           /\ TiesByFirstMet(top_countries, KnownCountries(df))
           /\ Ranked(top10_genres, all_genres)
           /\ TiesByFirstMet(top10_genres, all_genres)
    /\ Ran("actors") =>
           /\ Ranked(top_actors, flat_cast_list)
           /\ TiesByFirstMet(top_actors, flat_cast_list)

\* C10 amended: all three rankings hold at most ten entries by descending
\* count; the genre and actor rankings (Counter.most_common) order equal
\* counts as first met, so the input fixes them; the country ranking
\* (value_counts) fixes no order among equal counts.
C10_CounterRankingsStable ==
    /\ Ran("countries") =>
           /\ Ranked(top_countries, KnownCountries(df))
           /\ Ranked(top10_genres, all_genres)
           /\ TiesByFirstMet(top10_genres, all_genres)
    /\ Ran("actors") =>
           /\ Ranked(top_actors, flat_cast_list)
           /\ TiesByFirstMet(top_actors, flat_cast_list)

\* C10 witness: eleven genres and eleven actors cut to ten, all tied, and two
\* tied countries
C10_Witness ==
    /\ Ran("actors")
    /\ Len(top10_genres) = TopN /\ Cardinality(Range(all_genres)) > TopN
    /\ Len(top_actors) = TopN /\ Cardinality(Range(flat_cast_list)) > TopN
    /\ Len(top_countries) = 2 /\ top_countries[1][2] = top_countries[2][2]

\* The load cell has ended, with a table or with an exception
LoadEnded == pc # "load" \/ err # "none"

\* The fallback fetch was needed and gave no dataset
FetchFailed == fetch \in {"no shell", "failed", "no wget"}

\* C11: with the file absent and the fetch failing, the loader raises its own
\* FileNotFoundError before any parse; with the file present the table is
\* loaded and nothing is fetched; every run ends with the table loaded or
\* with the missing-file error.
C11_LoaderLoadsOrMissingFile ==
    LoadEnded =>
        /\ FetchFailed => (err = "FileNotFoundError" /\ ~ read_attempted)
        /\ fetch = "skipped" => (err = "none" /\ pc = "clean" /\ df = read_csv(file.rows))
        /\ \/ err = "none" /\ pc = "clean" /\ df = read_csv(file.rows)
           \/ err = "FileNotFoundError"

\* What the aggregation cells make of the main table t, for the names in b
AggregatesOf(b, t, types, ncountries, countries, genres, topgenres, movies, bad,
             shows, failed, years, months, actors, topactors, words) ==
    /\ "type_df" \in b => types = TypeCounts(t)
    /\ "top_countries" \in b =>
           /\ ncountries = Cardinality(Range(KnownCountries(t)))
           /\ countries \in {head(r, TopN) : r \in value_counts(KnownCountries(t))}
    /\ "top10_genres" \in b =>
           /\ genres = AllGenres(t)
           /\ topgenres = most_common(Counter(AllGenres(t)), TopN)
    /\ "df_movies" \in b =>
           IF "bad_durations" \in b
           THEN /\ movies = dropna(WithDurationInt(MoviesOf(t)), {"duration_int"})
                /\ bad = isna_sum(WithDurationInt(MoviesOf(t)), "duration_int")
           ELSE movies = MoviesOf(t)
    /\ "df_shows" \in b =>
           /\ shows = dropna(WithSeasons(ShowsOf(t)), {"seasons"})
           /\ failed = isna_sum(WithSeasons(ShowsOf(t)), "seasons")
    /\ "year_counts" \in b =>
           /\ years = CountPlot(t, "added_year")
           /\ months = CountPlot(t, "added_month")
    /\ "top_actors" \in b =>
           /\ actors = FlatCastList(t)
           /\ topactors = most_common(Counter(FlatCastList(t)), TopN)
    /\ "text" \in b => words = TitleText(t)

\* No row of the main table carries a field of the Movie-only or TV-only copy
NoCopyFields(t) ==
    \A i \in 1..Len(t) : {"duration_int", "seasons"} \cap DOMAIN t[i] = {}

====
